---- MODULE Spec2Model ----
(***************************************************************************)
(* Model of the two pipelines of csaf-walker:                              *)
(*   - provider-metadata discovery (csaf/src/metadata/mod.rs)              *)
(*   - the embedded csaf_validator_lib host with its deadline watchdog     *)
(*     (csaf/src/verification/check/csaf_validator_lib/mod.rs)             *)
(* Strings are sequences of tokens, so that URL formatting and URL parsing *)
(* are computed and not assumed.                                           *)
(***************************************************************************)
EXTENDS Integers, Sequences, FiniteSets, TLC

VARIABLES
    \* ---- discovery ----
    base_url,     \* MetadataRetriever.base_url
    lmStep,       \* position inside load_metadata: the approach to run next (1..5), 6 = returned
    attempted,    \* approaches invoked so far, in order
    outcomes,     \* what each invoked approach returned, in order
    fetched,      \* per invoked approach, the URLs it handed to fetcher.fetch, in order
    answers,      \* per invoked approach, the HTTP status each of those fetches got
    env,          \* what the network answered to the approach load_metadata invoked last
    lookups,      \* per invoked approach, the hosts it handed to resolver.lookup_ip
    lmResult,     \* what load_metadata returned (Pending until it returns)
    \* ---- validator host ----
    timeout,      \* CsafValidatorLib.timeout: TRUE for Some(duration), FALSE for None
    bundle,       \* what evaluating the embedded bundle does (fixed by the build)
    docs,         \* the documents the callers of this adapter submit
    slot,         \* CsafValidatorLib.runtime: 0 for None, else the isolate of the InnerCheck
    holder,       \* the call holding the tokio mutex of the slot, 0 when free
    nhosts,       \* isolates created so far (isolate ids are 1..nhosts)
    terminated,   \* isolates on which terminate_execution() took effect
    ncalls,       \* check() calls started so far (call ids are 1..ncalls)
    order,        \* call ids in the order they acquired the mutex
    pc,           \* per call: its caller's position inside check()
    calls,        \* per call: document, isolate, runner outcome, flag read, return value
    wd,           \* per call: position of the watchdog thread and its isolate handle
    cancelled,    \* per call: the AtomicBool of the Deadline
    \* ---- one adapter seen by a single caller ----
    profile,      \* the Profile given to CsafValidatorLib::new
    validations,  \* CsafValidatorLib.validations
    runnerResult, \* the TestResult the runner resolves with for the caller's document
    passed,       \* the validation lists serialized into the runner's arguments so far
    out,          \* what the caller's last check() returned
    \* ---- the CLI's show-all mode ----
    allStep,      \* position inside Metadata::all: the approach to run next (1..5), 6 = returned
    printed       \* what show_approach has printed so far, in order

discVars == <<base_url, lmStep, attempted, outcomes, fetched, answers, env, lookups,
             lmResult>>

valVars == <<timeout, bundle, docs, slot, holder, nhosts, terminated, ncalls, order,
             pc, calls, wd, cancelled>>

adVars == <<profile, validations, runnerResult, passed, out>>

cliVars == <<allStep, printed>>

vars == <<discVars, valVars, adVars, cliVars>>

\* ------------------------------------------------------------------------
\* Result values: every value is [tag, val] with val a token sequence
\* ------------------------------------------------------------------------
OkNone == [tag |-> "OkNone", val |-> <<>>]
OkSome(m) == [tag |-> "OkSome", val |-> m]
Err(e) == [tag |-> "Err", val |-> <<e>>]
Pending == [tag |-> "Pending", val |-> <<>>]

\* ------------------------------------------------------------------------
\* The inputs the environment can supply
\* ------------------------------------------------------------------------
HostTok == "vendor.example"

Sources ==
    { <<"https:", "//", HostTok, "/", "pm.json">>,
      <<"http:", "//", HostTok, "/", "pm.json">>,
      <<HostTok>>,
      <<"this-should-not-exist">> }

\* answers of the HTTP server to a GET whose body is decoded as JSON
JsonResponses ==
    { [status |-> "200", body |-> "metadata"],
      [status |-> "200", body |-> "garbage"],
      [status |-> "404", body |-> "none"],
      [status |-> "500", body |-> "none"] }

\* extension names as the parser hands them over: the name the scan looks for and
\* the same name in another case
ExtNames == {"csaf", "CSAF"}
ExtValues ==
    { <<"https:", "//", "x", "/", "pm.json">>,
      <<"https:", "//", "y", "/", "pm.json">>,
      <<"http:", "//", "x", "/", "pm.json">>,
      <<"pm.json">> }
ExtEntries == [name : ExtNames, value : ExtValues]

MaxExt == 2

ExtLists == UNION { [1..n -> ExtEntries] : n \in 0..MaxExt }

\* answers of the HTTP server to a GET of a security.txt
TextResponses ==
    { [status |-> "404", parses |-> FALSE, extension |-> <<>>],
      [status |-> "500", parses |-> FALSE, extension |-> <<>>],
      [status |-> "200", parses |-> FALSE, extension |-> <<>>] }
    \cup { [status |-> "200", parses |-> TRUE, extension |-> e] : e \in ExtLists }

\* answers of the resolver
DnsResponses == {"addresses", "empty", "no_records", "error", "builder_error"}

\* ------------------------------------------------------------------------
\* Url::parse and the fetcher
\* ------------------------------------------------------------------------
SchemeToks == {"https:", "http:"}

\* Url::parse: only a string with a scheme is an absolute URL
UrlParse(s) ==
    IF Len(s) >= 3 /\ s[1] \in SchemeToks /\ s[2] = "//"
    THEN [ok |-> TRUE, scheme |-> s[1], url |-> s]
    ELSE [ok |-> FALSE, scheme |-> "", url |-> <<>>]

\* fetcher.fetch::<Json<ProviderMetadata>>: a 404 is an error
FetchJson(url, r) ==
    IF r.status = "200" /\ r.body = "metadata" THEN OkSome(url) ELSE Err("Fetch")

\* fetcher.fetch::<Option<Json<ProviderMetadata>>>: a 404 is None
FetchOptJson(url, r) ==
    IF r.status = "404" THEN OkNone
    ELSE IF r.status = "200" /\ r.body = "metadata" THEN OkSome(url)
    ELSE Err("Fetch")

\* fetcher.fetch::<Option<String>>: a 404 is None, a 200 is the text
FetchOptString(r) ==
    IF r.status = "404" THEN "none"
    ELSE IF r.status = "200" THEN "text"
    ELSE "error"

\* ------------------------------------------------------------------------
\* The discovery approaches. Each returns what the approach returns (res),
\* the URLs it handed to the fetcher with the status each got, and the hosts
\* it handed to the resolver.
\* ------------------------------------------------------------------------
\* the answers an approach was given: the security.txt response, the response
\* to the fetch of the metadata, the resolver's answer (<<>> when not asked)
NoEnv == [text |-> <<>>, json |-> <<>>, dns |-> <<>>]

ApproachResult(res, f, a, l) ==
    [res |-> res, fetched |-> f, answers |-> a, lookups |-> l, env |-> NoEnv]

\* the same, for an approach that was given the security.txt answer rt
WithText(a, rt) == [a EXCEPT !.env.text = <<rt>>]

\* the same, for an approach whose fetch of the metadata was answered by r
WithJson(a, r) == [a EXCEPT !.env.json = <<r>>]

\* the same, for an approach whose lookup was answered by d
WithDns(a, d) == [a EXCEPT !.env.dns = <<d>>]

\* variant: the scan takes the first csaf entry whose value is a URL, whatever
\* its scheme
RECURSIVE FirstCsafUrl_any_scheme(_)
FirstCsafUrl_any_scheme(ext) ==
    IF ext = <<>> THEN <<>>
    ELSE IF Head(ext).name = "csaf" /\ UrlParse(Head(ext).value).ok
         THEN Head(ext).value
         ELSE FirstCsafUrl_any_scheme(Tail(ext))

\* the extension scan of get_metadata_url_from_security_text:
\* filter name == "csaf", filter_map Url::parse, find scheme == "https"
RECURSIVE FirstCsafUrl(_)
FirstCsafUrl(ext) ==
    IF ext = <<>> THEN <<>>
    ELSE IF /\ Head(ext).name = "csaf"
            /\ UrlParse(Head(ext).value).ok
            /\ UrlParse(Head(ext).value).scheme = "https:"
         THEN Head(ext).value
         ELSE FirstCsafUrl(Tail(ext))

\* variant: a security.txt that does not parse counts as "not present"
get_metadata_url_from_security_text_lenient(r) ==
    IF FetchOptString(r) = "error" THEN Err("Fetch")
    ELSE IF FetchOptString(r) = "none" THEN OkNone
    ELSE IF ~r.parses THEN OkNone
    ELSE IF FirstCsafUrl(r.extension) = <<>> THEN OkNone
    ELSE OkSome(FirstCsafUrl(r.extension))

\* Result<Option<Url>, Error>
get_metadata_url_from_security_text(r) ==
    IF FetchOptString(r) = "error" THEN Err("Fetch")
    ELSE IF FetchOptString(r) = "none" THEN OkNone
    ELSE IF ~r.parses THEN Err("SecurityTxt")
    ELSE IF FirstCsafUrl(r.extension) = <<>> THEN OkNone
    ELSE OkSome(FirstCsafUrl(r.extension))

\* variant: the fetch uses the Option form, so a 404 is "not present"
approach_full_url_optional(base, r) ==
    IF ~UrlParse(base).ok
    THEN ApproachResult(OkNone, <<>>, <<>>, <<>>)
    ELSE WithJson(ApproachResult(FetchOptJson(UrlParse(base).url, r),
                                 <<UrlParse(base).url>>, <<r.status>>, <<>>), r)

\* variant: the source is fetched even when it is not a URL
approach_full_url_always_fetch(base, r) ==
    WithJson(ApproachResult(FetchJson(base, r), <<base>>, <<r.status>>, <<>>), r)

\* variant: only an https source counts as a URL
approach_full_url_https_only(base, r) ==
    IF ~(UrlParse(base).ok /\ UrlParse(base).scheme = "https:")
    THEN ApproachResult(OkNone, <<>>, <<>>, <<>>)
    ELSE WithJson(ApproachResult(FetchJson(UrlParse(base).url, r),
                                 <<UrlParse(base).url>>, <<r.status>>, <<>>), r)

approach_full_url(base, r) ==
    IF ~UrlParse(base).ok
    THEN ApproachResult(OkNone, <<>>, <<>>, <<>>)
    ELSE WithJson(ApproachResult(FetchJson(UrlParse(base).url, r),
                                 <<UrlParse(base).url>>, <<r.status>>, <<>>), r)

WellKnownUrl(base) ==
    <<"https:", "//">> \o base \o <<"/", ".well-known/csaf/provider-metadata.json">>

\* variant: the fetch uses the plain form, so a 404 is an error
approach_well_known_strict(base, r) ==
    WithJson(ApproachResult(FetchJson(WellKnownUrl(base), r),
                            <<WellKnownUrl(base)>>, <<r.status>>, <<>>), r)

approach_well_known(base, r) ==
    WithJson(ApproachResult(FetchOptJson(WellKnownUrl(base), r),
                            <<WellKnownUrl(base)>>, <<r.status>>, <<>>), r)

DnsHost(base) == <<"csaf.data.security.">> \o base

\* variant: a lookup without records is reported as NotFound by the approach
approach_dns_not_found(base, d, r) ==
    IF d = "builder_error" THEN ApproachResult(Err("Dns"), <<>>, <<>>, <<>>)
    ELSE IF d \in {"empty", "no_records"}
    THEN WithDns(ApproachResult(Err("NotFound"), <<>>, <<>>, <<DnsHost(base)>>), d)
    ELSE IF d = "error"
    THEN WithDns(ApproachResult(Err("Dns"), <<>>, <<>>, <<DnsHost(base)>>), d)
    ELSE WithDns(WithJson(
             ApproachResult(FetchOptJson(<<"https:", "//">> \o DnsHost(base), r),
                            << <<"https:", "//">> \o DnsHost(base) >>, <<r.status>>,
                            <<DnsHost(base)>>), r), d)

\* variant: the pre-flight lookup does not gate the fetch
approach_dns_without_preflight(base, d, r) ==
    IF d = "builder_error" THEN ApproachResult(Err("Dns"), <<>>, <<>>, <<>>)
    ELSE IF d = "error"
    THEN WithDns(ApproachResult(Err("Dns"), <<>>, <<>>, <<DnsHost(base)>>), d)
    ELSE WithDns(WithJson(
             ApproachResult(FetchOptJson(<<"https:", "//">> \o DnsHost(base), r),
                            << <<"https:", "//">> \o DnsHost(base) >>, <<r.status>>,
                            <<DnsHost(base)>>), r), d)

\* variant: the fetch after the lookup uses the plain form, so a 404 is an error
approach_dns_strict(base, d, r) ==
    IF d = "builder_error" THEN ApproachResult(Err("Dns"), <<>>, <<>>, <<>>)
    ELSE IF d \in {"empty", "no_records"}
    THEN WithDns(ApproachResult(OkNone, <<>>, <<>>, <<DnsHost(base)>>), d)
    ELSE IF d = "error"
    THEN WithDns(ApproachResult(Err("Dns"), <<>>, <<>>, <<DnsHost(base)>>), d)
    ELSE WithDns(WithJson(
             ApproachResult(FetchJson(<<"https:", "//">> \o DnsHost(base), r),
                            << <<"https:", "//">> \o DnsHost(base) >>, <<r.status>>,
                            <<DnsHost(base)>>), r), d)

approach_dns(base, d, r) ==
    IF d = "builder_error" THEN ApproachResult(Err("Dns"), <<>>, <<>>, <<>>)
    ELSE IF d \in {"empty", "no_records"}
    THEN WithDns(ApproachResult(OkNone, <<>>, <<>>, <<DnsHost(base)>>), d)
    ELSE IF d = "error"
    THEN WithDns(ApproachResult(Err("Dns"), <<>>, <<>>, <<DnsHost(base)>>), d)
    ELSE WithDns(WithJson(
             ApproachResult(FetchOptJson(<<"https:", "//">> \o DnsHost(base), r),
                            << <<"https:", "//">> \o DnsHost(base) >>, <<r.status>>,
                            <<DnsHost(base)>>), r), d)

SecurityTxtUrl(base, path) == <<"https:", "//">> \o base \o <<"/">> \o path

\* variant: the metadata the security.txt points to is fetched with the
\* Option form, so a 404 on it is "not present"
approach_security_txt_optional(base, path, rt, rj) ==
    LET u == get_metadata_url_from_security_text(rt) IN
    IF u.tag = "Err"
    THEN WithText(ApproachResult(u, <<SecurityTxtUrl(base, path)>>, <<rt.status>>, <<>>), rt)
    ELSE IF u.tag = "OkNone"
    THEN WithText(ApproachResult(OkNone, <<SecurityTxtUrl(base, path)>>, <<rt.status>>,
                                 <<>>), rt)
    ELSE WithText(WithJson(
             ApproachResult(FetchOptJson(u.val, rj), <<SecurityTxtUrl(base, path), u.val>>,
                            <<rt.status, rj.status>>, <<>>), rj), rt)

approach_security_txt(base, path, rt, rj) ==
    LET u == get_metadata_url_from_security_text(rt) IN
    IF u.tag = "Err"
    THEN WithText(ApproachResult(u, <<SecurityTxtUrl(base, path)>>, <<rt.status>>, <<>>), rt)
    ELSE IF u.tag = "OkNone"
    THEN WithText(ApproachResult(OkNone, <<SecurityTxtUrl(base, path)>>, <<rt.status>>,
                                 <<>>), rt)
    ELSE WithText(WithJson(
             ApproachResult(FetchJson(u.val, rj), <<SecurityTxtUrl(base, path), u.val>>,
                            <<rt.status, rj.status>>, <<>>), rj), rt)

\* ------------------------------------------------------------------------
\* load_metadata: one action per approach it awaits
\* ------------------------------------------------------------------------
NotFound == [tag |-> "Err", val |-> <<"NotFound">>]

\* variant: an error of an approach is skipped like Ok(None)
AfterApproach_skip_errors(n, name, a) ==
    /\ attempted' = Append(attempted, name)
    /\ outcomes' = Append(outcomes, a.res)
    /\ fetched' = Append(fetched, a.fetched)
    /\ answers' = Append(answers, a.answers)
    /\ env' = a.env
    /\ lookups' = Append(lookups, a.lookups)
    /\ IF a.res.tag = "OkSome"
       THEN /\ lmResult' = [tag |-> "Ok", val |-> a.res.val]
            /\ lmStep' = 6
       ELSE IF n = 5
       THEN /\ lmResult' = [tag |-> "Err", val |-> <<"NotFound">>]
            /\ lmStep' = 6
       ELSE /\ lmResult' = lmResult
            /\ lmStep' = n + 1
    /\ UNCHANGED <<base_url, valVars, adVars, cliVars>>

\* variant: an approach that failed is invoked again
AfterApproach_retry(n, name, a) ==
    /\ attempted' = Append(attempted, name)
    /\ outcomes' = Append(outcomes, a.res)
    /\ fetched' = Append(fetched, a.fetched)
    /\ answers' = Append(answers, a.answers)
    /\ env' = a.env
    /\ lookups' = Append(lookups, a.lookups)
    /\ IF a.res.tag = "OkSome"
       THEN /\ lmResult' = [tag |-> "Ok", val |-> a.res.val]
            /\ lmStep' = 6
       ELSE IF a.res.tag = "Err"
       THEN /\ lmResult' = lmResult
            /\ lmStep' = n
       ELSE IF n = 5
       THEN /\ lmResult' = NotFound
            /\ lmStep' = 6
       ELSE /\ lmResult' = lmResult
            /\ lmStep' = n + 1
    /\ UNCHANGED <<base_url, valVars, adVars, cliVars>>

\* `if let Some(metadata) = approach.await? { return Ok(metadata) }`,
\* followed after the last approach by `Err(Error::NotFound)`
AfterApproach(n, name, a) ==
    /\ attempted' = Append(attempted, name)
    /\ outcomes' = Append(outcomes, a.res)
    /\ fetched' = Append(fetched, a.fetched)
    /\ answers' = Append(answers, a.answers)
    /\ env' = a.env
    /\ lookups' = Append(lookups, a.lookups)
    /\ IF a.res.tag = "OkSome"
       THEN /\ lmResult' = [tag |-> "Ok", val |-> a.res.val]
            /\ lmStep' = 6
       ELSE IF a.res.tag = "Err"
       THEN /\ lmResult' = a.res
            /\ lmStep' = 6
       ELSE IF n = 5
       THEN /\ lmResult' = NotFound
            /\ lmStep' = 6
       ELSE /\ lmResult' = lmResult
            /\ lmStep' = n + 1
    /\ UNCHANGED <<base_url, valVars, adVars, cliVars>>

LoadFullUrl ==
    /\ lmStep = 1
    /\ \E r \in JsonResponses :
         AfterApproach(1, "full_url", approach_full_url(base_url, r))

LoadWellKnown ==
    /\ lmStep = 2
    /\ \E r \in JsonResponses :
         AfterApproach(2, "well_known", approach_well_known(base_url, r))

LoadSecurityTxtNew ==
    /\ lmStep = 3
    /\ \E rt \in TextResponses, rj \in JsonResponses :
         AfterApproach(3, "well_known_security_txt",
             approach_security_txt(base_url, <<".well-known/security.txt">>, rt, rj))

LoadSecurityTxtLegacy ==
    /\ lmStep = 4
    /\ \E rt \in TextResponses, rj \in JsonResponses :
         AfterApproach(4, "security_txt",
             approach_security_txt(base_url, <<"security.txt">>, rt, rj))

LoadDns ==
    /\ lmStep = 5
    /\ \E d \in DnsResponses, r \in JsonResponses :
         AfterApproach(5, "dns", approach_dns(base_url, d, r))

\* MetadataRetriever::new followed by a fresh call of load_metadata
NewRetriever ==
    /\ lmStep = 6
    /\ base_url' \in Sources
    /\ lmStep' = 1
    /\ attempted' = <<>>
    /\ outcomes' = <<>>
    /\ fetched' = <<>>
    /\ answers' = <<>>
    /\ env' = NoEnv
    /\ lookups' = <<>>
    /\ lmResult' = Pending
    /\ UNCHANGED <<valVars, adVars, cliVars>>

InitDiscovery ==
    /\ base_url \in Sources
    /\ lmStep = 1
    /\ attempted = <<>>
    /\ outcomes = <<>>
    /\ fetched = <<>>
    /\ answers = <<>>
    /\ env = NoEnv
    /\ lookups = <<>>
    /\ lmResult = Pending

NextDiscovery ==
    \/ LoadFullUrl
    \/ LoadWellKnown
    \/ LoadSecurityTxtNew
    \/ LoadSecurityTxtLegacy
    \/ LoadDns
    \/ NewRetriever

\* ------------------------------------------------------------------------
\* The validator host
\* ------------------------------------------------------------------------
NumCallers == 2
MaxCalls == 2

CallIds == 1..MaxCalls

\* documents, by what the bundle's runner does with them
Docs == {"valid", "invalid", "hang", "reject", "bad_result", "unserializable"}

\* the documents one adapter is given: the kinds that exercise the deadline,
\* and the kinds that exercise result extraction and its failures
Workloads == { {"valid", "hang", "reject"}, {"invalid", "bad_result", "unserializable"} }

\* what evaluating the bundle does in InnerCheck::new
Bundles == {"registers", "no_runner", "load_error"}

ErrEntry(m) == [message |-> m]
Entry(n, v, e) == [name |-> n, is_valid |-> v, errors |-> e, warnings |-> <<>>,
                   infos |-> <<>>]

\* the TestResult the runner resolves with
RunnerOutput(doc) ==
    IF doc = "valid"
    THEN [tests |-> << Entry("schema", TRUE, <<>>), Entry("mandatory", TRUE, <<>>) >>]
    ELSE [tests |-> << Entry("schema", TRUE, <<>>),
                       Entry("mandatory", FALSE, <<ErrEntry("m1"), ErrEntry("m2")>>) >>]

\* the loop over entry.errors: format!("{name}: {message}")
RECURSIVE FormatErrors(_, _)
FormatErrors(name, errors) ==
    IF errors = <<>> THEN <<>>
    ELSE << <<name, ": ", Head(errors).message>> >> \o FormatErrors(name, Tail(errors))

\* variant: the errors of every entry are reported, valid or not
RECURSIVE FormatTests_all_entries(_)
FormatTests_all_entries(tests) ==
    IF tests = <<>> THEN <<>>
    ELSE FormatErrors(Head(tests).name, Head(tests).errors)
             \o FormatTests_all_entries(Tail(tests))

\* the loop over test_result.tests, skipping is_valid entries
RECURSIVE FormatTests(_)
FormatTests(tests) ==
    IF tests = <<>> THEN <<>>
    ELSE IF Head(tests).is_valid THEN FormatTests(Tail(tests))
    ELSE FormatErrors(Head(tests).name, Head(tests).errors) \o FormatTests(Tail(tests))

TimedOut == [tag |-> "Ok", val |-> << <<"check timed out">> >>]
CheckErr(e) == [tag |-> "Err", val |-> << <<e>> >>]
NoReturn == [tag |-> "Pending", val |-> <<>>]

\* InnerCheck::new: Ok, or the error it returns
InnerCheckNew(b) ==
    IF b = "registers" THEN "ok"
    ELSE IF b = "no_runner" THEN "runner function was not initialized"
    ELSE "module load failed"

\* variant: the runner's result is processed before the flag is looked at
ValidateResult_result_first(readc, run, doc) ==
    IF run = "terminated" THEN [tag |-> "Err", val |-> <<"execution terminated">>]
    ELSE IF run = "rejected" THEN [tag |-> "Err", val |-> <<"runner rejected">>]
    ELSE IF readc THEN [tag |-> "None", val |-> <<>>]
    ELSE IF doc = "bad_result" THEN [tag |-> "Err", val |-> <<"deserialize failed">>]
    ELSE [tag |-> "Some", val |-> <<RunnerOutput(doc)>>]

\* the tail of InnerCheck::validate after the flag was read:
\* Ok(None) when cancelled, else `result?`, else from_v8
ValidateResult(readc, run, doc) ==
    IF readc THEN [tag |-> "None", val |-> <<>>]
    ELSE IF run = "terminated" THEN [tag |-> "Err", val |-> <<"execution terminated">>]
    ELSE IF run = "rejected" THEN [tag |-> "Err", val |-> <<"runner rejected">>]
    ELSE IF doc = "bad_result" THEN [tag |-> "Err", val |-> <<"deserialize failed">>]
    ELSE [tag |-> "Some", val |-> <<RunnerOutput(doc)>>]

\* what check() returns for a validate result
CheckReturn(v) ==
    IF v.tag = "Err" THEN CheckErr(v.val[1])
    ELSE IF v.tag = "None" THEN TimedOut
    ELSE [tag |-> "Ok", val |-> FormatTests(v.val[1].tests)]

\* variant: the host is discarded after an error of validate as well
Evicts_on_error(v) == v.tag \in {"None", "Err"}

\* variant: the host is kept after a timeout
Evicts_never(v) == FALSE

\* whether check() clears the slot for a validate result (inner_lock.take())
Evicts(v) == v.tag = "None"

NoCall == [doc |-> "none", iso |-> 0, built |-> FALSE, run |-> "none",
           readc |-> FALSE, firedAtRead |-> FALSE, droppedEarly |-> FALSE,
           ret |-> NoReturn]

NoWd == [pc |-> "none", iso |-> 0]

InitValidator ==
    /\ timeout \in BOOLEAN
    /\ bundle \in Bundles
    /\ docs \in Workloads
    /\ slot = 0
    /\ holder = 0
    /\ nhosts = 0
    /\ terminated = {}
    /\ ncalls = 0
    /\ order = <<>>
    /\ pc = [k \in CallIds |-> "none"]
    /\ calls = [k \in CallIds |-> NoCall]
    /\ wd = [k \in CallIds |-> NoWd]
    /\ cancelled = [k \in CallIds |-> FALSE]

\* the calls whose caller is inside check()
Active == {k \in CallIds : pc[k] \notin {"none", "done"}}

\* a caller invokes check(csaf) and starts waiting for the mutex;
\* calls are numbered in the order they are made
Check(c) ==
    /\ c = ncalls + 1
    /\ Cardinality(Active) < NumCallers
    /\ \E d \in docs :
         calls' = [calls EXCEPT ![c] = [NoCall EXCEPT !.doc = d]]
    /\ ncalls' = c
    /\ pc' = [pc EXCEPT ![c] = "lock"]
    /\ UNCHANGED <<timeout, bundle, docs, slot, holder, nhosts, terminated, order, wd, cancelled>>
    /\ UNCHANGED <<discVars, adVars, cliVars>>

\* variant: the slot is inspected without waiting for the mutex
Lock_without_waiting(c) ==
    /\ pc[c] = "lock"
    /\ holder' = c
    /\ order' = Append(order, c)
    /\ IF slot # 0
       THEN /\ pc' = [pc EXCEPT ![c] = "validate"]
            /\ calls' = [calls EXCEPT ![c].iso = slot]
       ELSE /\ pc' = [pc EXCEPT ![c] = "new"]
            /\ calls' = calls
    /\ UNCHANGED <<timeout, bundle, docs, slot, nhosts, terminated, ncalls, wd, cancelled>>
    /\ UNCHANGED <<discVars, adVars, cliVars>>

\* self.runtime.lock().await, then the match on the slot
Lock(c) ==
    /\ pc[c] = "lock"
    /\ holder = 0
    /\ holder' = c
    /\ order' = Append(order, c)
    /\ IF slot # 0
       THEN /\ pc' = [pc EXCEPT ![c] = "validate"]
            /\ calls' = [calls EXCEPT ![c].iso = slot]
       ELSE /\ pc' = [pc EXCEPT ![c] = "new"]
            /\ calls' = calls
    /\ UNCHANGED <<timeout, bundle, docs, slot, nhosts, terminated, ncalls, wd, cancelled>>
    /\ UNCHANGED <<discVars, adVars, cliVars>>

\* variant: the slot is filled before the outcome of InnerCheck::new is known
New_stores_failed_host(c) ==
    /\ pc[c] = "new"
    /\ nhosts' = nhosts + 1
    /\ slot' = nhosts + 1
    /\ IF InnerCheckNew(bundle) = "ok"
       THEN /\ calls' = [calls EXCEPT ![c].iso = nhosts + 1, ![c].built = TRUE]
            /\ pc' = [pc EXCEPT ![c] = "validate"]
            /\ UNCHANGED holder
       ELSE /\ calls' = [calls EXCEPT ![c].ret = CheckErr(InnerCheckNew(bundle))]
            /\ pc' = [pc EXCEPT ![c] = "done"]
            /\ holder' = 0
    /\ UNCHANGED <<timeout, bundle, docs, terminated, ncalls, order, wd, cancelled>>
    /\ UNCHANGED <<discVars, adVars, cliVars>>

\* InnerCheck::new().await? followed by get_or_insert
New(c) ==
    /\ pc[c] = "new"
    /\ IF InnerCheckNew(bundle) = "ok"
       THEN /\ nhosts' = nhosts + 1
            /\ slot' = nhosts + 1
            /\ calls' = [calls EXCEPT ![c].iso = nhosts + 1, ![c].built = TRUE]
            /\ pc' = [pc EXCEPT ![c] = "validate"]
            /\ UNCHANGED holder
       ELSE /\ calls' = [calls EXCEPT ![c].ret = CheckErr(InnerCheckNew(bundle))]
            /\ pc' = [pc EXCEPT ![c] = "done"]
            /\ holder' = 0
            /\ UNCHANGED <<nhosts, slot>>
    /\ UNCHANGED <<timeout, bundle, docs, terminated, ncalls, order, wd, cancelled>>
    /\ UNCHANGED <<discVars, adVars, cliVars>>

\* variant: the deadline is armed whether or not a timeout is set
Arm_always_spawns(c) ==
    /\ pc[c] = "validate"
    /\ IF calls[c].doc = "unserializable"
       THEN /\ calls' = [calls EXCEPT ![c].ret = CheckErr("serialize failed")]
            /\ pc' = [pc EXCEPT ![c] = "done"]
            /\ holder' = 0
            /\ wd' = wd
       ELSE /\ calls' = calls
            /\ pc' = [pc EXCEPT ![c] = "running"]
            /\ holder' = holder
            /\ wd' = [wd EXCEPT ![c] = [pc |-> "spawned", iso |-> slot]]
    /\ UNCHANGED <<timeout, bundle, docs, slot, nhosts, terminated, ncalls, order, cancelled>>
    /\ UNCHANGED <<discVars, adVars, cliVars>>

\* validate up to the await on the event loop: serialize the arguments,
\* arm the deadline (spawn the watchdog) when a timeout is set, call the runner
Arm(c) ==
    /\ pc[c] = "validate"
    /\ IF calls[c].doc = "unserializable"
       THEN /\ calls' = [calls EXCEPT ![c].ret = CheckErr("serialize failed")]
            /\ pc' = [pc EXCEPT ![c] = "done"]
            /\ holder' = 0
            /\ wd' = wd
       ELSE /\ calls' = calls
            /\ pc' = [pc EXCEPT ![c] = "running"]
            /\ holder' = holder
            /\ wd' = IF timeout
                     THEN [wd EXCEPT ![c] = [pc |-> "spawned", iso |-> slot]]
                     ELSE wd
    /\ UNCHANGED <<timeout, bundle, docs, slot, nhosts, terminated, ncalls, order, cancelled>>
    /\ UNCHANGED <<discVars, adVars, cliVars>>

\* the event-loop future resolves because the runner's promise settled
RunnerCompletes(c) ==
    /\ pc[c] = "running"
    /\ calls[c].doc # "hang"
    /\ slot \notin terminated
    /\ calls' = [calls EXCEPT ![c].run =
                    IF calls[c].doc = "reject" THEN "rejected" ELSE "resolved"]
    /\ pc' = [pc EXCEPT ![c] = "check_cancelled"]
    /\ UNCHANGED <<timeout, bundle, docs, slot, holder, nhosts, terminated, ncalls, order,
                   wd, cancelled>>
    /\ UNCHANGED <<discVars, adVars, cliVars>>

\* the event-loop future resolves because execution was terminated
RunnerTerminated(c) ==
    /\ pc[c] = "running"
    /\ slot \in terminated
    /\ calls' = [calls EXCEPT ![c].run = "terminated"]
    /\ pc' = [pc EXCEPT ![c] = "check_cancelled"]
    /\ UNCHANGED <<timeout, bundle, docs, slot, holder, nhosts, terminated, ncalls, order,
                   wd, cancelled>>
    /\ UNCHANGED <<discVars, adVars, cliVars>>

\* deadline.as_ref().map(|d| d.was_cancelled()).unwrap_or_default()
WasCancelled(c) ==
    /\ pc[c] = "check_cancelled"
    /\ calls' = [calls EXCEPT
                   ![c].readc = timeout /\ cancelled[c],
                   ![c].firedAtRead = (wd[c].pc = "fired")]
    /\ pc' = [pc EXCEPT ![c] = "drop"]
    /\ UNCHANGED <<timeout, bundle, docs, slot, holder, nhosts, terminated, ncalls, order,
                   wd, cancelled>>
    /\ UNCHANGED <<discVars, adVars, cliVars>>

\* drop(deadline): Deadline::drop calls notify_one, which wakes the watchdog
\* only if it is inside wait_timeout
DropDeadline(c) ==
    /\ pc[c] = "drop"
    /\ wd' = IF wd[c].pc = "waiting"
             THEN [wd EXCEPT ![c].pc = "notified"]
             ELSE wd
    /\ calls' = [calls EXCEPT ![c].droppedEarly =
                    wd[c].pc \in {"spawned", "locked", "waiting"}]
    /\ pc' = [pc EXCEPT ![c] = "finish"]
    /\ UNCHANGED <<timeout, bundle, docs, slot, holder, nhosts, terminated, ncalls, order,
                   cancelled>>
    /\ UNCHANGED <<discVars, adVars, cliVars>>

\* the rest of validate and of check(): the result is computed, the host is
\* evicted on the timed-out sentinel, check() returns and the mutex guard drops
Finish(c) ==
    /\ pc[c] = "finish"
    /\ LET v == ValidateResult(calls[c].readc, calls[c].run, calls[c].doc) IN
         /\ calls' = [calls EXCEPT ![c].ret = CheckReturn(v)]
         /\ slot' = IF Evicts(v) THEN 0 ELSE slot
    /\ holder' = 0
    /\ pc' = [pc EXCEPT ![c] = "done"]
    /\ UNCHANGED <<timeout, bundle, docs, nhosts, terminated, ncalls, order, wd, cancelled>>
    /\ UNCHANGED <<discVars, adVars, cliVars>>

\* ---- the watchdog thread of call k ----
WdStep(k, from, to) ==
    /\ wd[k].pc = from
    /\ wd' = [wd EXCEPT ![k].pc = to]

\* lock.lock()
WdLock(k) ==
    /\ WdStep(k, "spawned", "locked")
    /\ UNCHANGED <<timeout, bundle, docs, slot, holder, nhosts, terminated, ncalls, order,
                   pc, calls, cancelled>>
    /\ UNCHANGED <<discVars, adVars, cliVars>>

\* notify.wait_timeout(lock, duration) starts waiting
WdWait(k) ==
    /\ WdStep(k, "locked", "waiting")
    /\ UNCHANGED <<timeout, bundle, docs, slot, holder, nhosts, terminated, ncalls, order,
                   pc, calls, cancelled>>
    /\ UNCHANGED <<discVars, adVars, cliVars>>

\* the duration elapses: wait_timeout returns with timed_out()
WdTimedOut(k) ==
    /\ WdStep(k, "waiting", "timed_out")
    /\ UNCHANGED <<timeout, bundle, docs, slot, holder, nhosts, terminated, ncalls, order,
                   pc, calls, cancelled>>
    /\ UNCHANGED <<discVars, adVars, cliVars>>

\* wait_timeout returned on the notification: "Deadline cancelled"
WdCancelled(k) ==
    /\ WdStep(k, "notified", "exited")
    /\ UNCHANGED <<timeout, bundle, docs, slot, holder, nhosts, terminated, ncalls, order,
                   pc, calls, cancelled>>
    /\ UNCHANGED <<discVars, adVars, cliVars>>

\* variant: the flag is not stored before terminate_execution()
WdStore_omitted(k) ==
    /\ WdStep(k, "timed_out", "stored")
    /\ UNCHANGED <<timeout, bundle, docs, slot, holder, nhosts, terminated, ncalls, order,
                   pc, calls, cancelled>>
    /\ UNCHANGED <<discVars, adVars, cliVars>>

\* cancelled.store(true, Ordering::Release)
WdStore(k) ==
    /\ WdStep(k, "timed_out", "stored")
    /\ cancelled' = [cancelled EXCEPT ![k] = TRUE]
    /\ UNCHANGED <<timeout, bundle, docs, slot, holder, nhosts, terminated, ncalls, order,
                   pc, calls>>
    /\ UNCHANGED <<discVars, adVars, cliVars>>

\* isolate.terminate_execution(): takes effect on the isolate of the handle
\* if that isolate still exists (it exists while its host is in the slot)
WdTerminate(k) ==
    /\ WdStep(k, "stored", "fired")
    /\ terminated' = IF slot = wd[k].iso THEN terminated \cup {wd[k].iso} ELSE terminated
    /\ UNCHANGED <<timeout, bundle, docs, slot, holder, nhosts, ncalls, order,
                   pc, calls, cancelled>>
    /\ UNCHANGED <<discVars, adVars, cliVars>>

NextValidator ==
    \/ \E c \in CallIds : Check(c)
    \/ \E c \in CallIds : Lock(c)
    \/ \E c \in CallIds : New(c)
    \/ \E c \in CallIds : Arm(c)
    \/ \E c \in CallIds : RunnerCompletes(c)
    \/ \E c \in CallIds : RunnerTerminated(c)
    \/ \E c \in CallIds : WasCancelled(c)
    \/ \E c \in CallIds : DropDeadline(c)
    \/ \E c \in CallIds : Finish(c)
    \/ \E k \in CallIds : WdLock(k)
    \/ \E k \in CallIds : WdWait(k)
    \/ \E k \in CallIds : WdTimedOut(k)
    \/ \E k \in CallIds : WdCancelled(k)
    \/ \E k \in CallIds : WdStore(k)
    \/ \E k \in CallIds : WdTerminate(k)

\* ------------------------------------------------------------------------
\* One adapter and one caller: construction, the timeout builders, and
\* check() calls whose runner resolves with a TestResult
\* ------------------------------------------------------------------------
Profiles == {"Schema", "Mandatory", "Optional"}

\* variant: a profile runs only the set it is named after
ProfileValidations_single(p) ==
    IF p = "Schema" THEN <<"schema">>
    ELSE IF p = "Mandatory" THEN <<"mandatory">>
    ELSE <<"optional">>

\* the match on profile in CsafValidatorLib::new; a ValidationSet is written
\* as serde serializes it (camelCase)
ProfileValidations(p) ==
    IF p = "Schema" THEN <<"schema">>
    ELSE IF p = "Mandatory" THEN <<"schema", "mandatory">>
    ELSE <<"schema", "mandatory", "optional">>

\* the TestResults a runner can resolve with
TestNames == {"schema", "mandatory"}

ErrLists ==
    { <<>>,
      <<ErrEntry("m1")>>,
      <<ErrEntry("m1"), ErrEntry("m2")>>,
      <<ErrEntry("m2"), ErrEntry("m1")>> }

\* warnings and infos are opaque values
Notes == { [warnings |-> <<>>, infos |-> <<>>], [warnings |-> <<"w">>, infos |-> <<"i">>] }

TestEntries ==
    { [name |-> n, is_valid |-> v, errors |-> e, warnings |-> x.warnings, infos |-> x.infos] :
        n \in TestNames, v \in BOOLEAN, e \in ErrLists, x \in Notes }

MaxTests == 2

TestResults == { [tests |-> t] : t \in UNION { [1..n -> TestEntries] : n \in 0..MaxTests } }

\* CsafValidatorLib::new(profile), and the document the caller will submit
InitAdapter ==
    /\ profile \in Profiles
    /\ validations = ProfileValidations(profile)
    /\ runnerResult \in TestResults
    /\ passed = {}
    /\ out = NoReturn

\* self.with_timeout(duration)
WithTimeout ==
    /\ timeout' = TRUE
    /\ UNCHANGED <<bundle, docs, slot, holder, nhosts, terminated, ncalls, order, pc, calls,
                   wd, cancelled>>
    /\ UNCHANGED <<discVars, adVars, cliVars>>

\* self.without_timeout()
WithoutTimeout ==
    /\ timeout' = FALSE
    /\ UNCHANGED <<bundle, docs, slot, holder, nhosts, terminated, ncalls, order, pc, calls,
                   wd, cancelled>>
    /\ UNCHANGED <<discVars, adVars, cliVars>>

\* self.timeout(t) with t: Into<Option<Duration>>
SetTimeout ==
    /\ \E t \in BOOLEAN : timeout' = t
    /\ UNCHANGED <<bundle, docs, slot, holder, nhosts, terminated, ncalls, order, pc, calls,
                   wd, cancelled>>
    /\ UNCHANGED <<discVars, adVars, cliVars>>

\* a whole check() of the single caller, on the path where the runner resolves
\* before the deadline: the host is built if the slot is empty, validate is
\* given &self.validations, and the TestResult is turned into the strings
SequentialCheck ==
    /\ holder = 0
    /\ InnerCheckNew(bundle) = "ok"
    /\ slot' = IF slot = 0 THEN nhosts + 1 ELSE slot
    /\ nhosts' = IF slot = 0 THEN nhosts + 1 ELSE nhosts
    /\ passed' = passed \cup {validations}
    /\ out' = CheckReturn([tag |-> "Some", val |-> <<runnerResult>>])
    /\ UNCHANGED <<timeout, bundle, docs, holder, terminated, ncalls, order, pc, calls,
                   wd, cancelled>>
    /\ UNCHANGED <<profile, validations, runnerResult>>
    /\ UNCHANGED <<discVars, cliVars>>

NextAdapter ==
    \/ WithTimeout
    \/ WithoutTimeout
    \/ SetTimeout
    \/ SequentialCheck

\* ------------------------------------------------------------------------
\* The CLI's show-all mode (csaf-cli/src/cmd/metadata.rs): Metadata::all
\* calls each approach of one MetadataRetriever and prints what it returned
\* ------------------------------------------------------------------------
\* Metadata::show_approach: the line it prints; it returns Ok(()) in each arm
show_approach(label, res) ==
    IF res.tag = "OkSome" THEN <<label, ":", res.val>>
    ELSE IF res.tag = "OkNone" THEN <<label, ": <<none>>">>
    ELSE <<label, " (Err): ", res.val[1]>>

\* variant: the error of an approach is propagated and ends Metadata::all
ShowApproach_stop_on_error(n, name, label, a) ==
    /\ allStep = n
    /\ attempted' = Append(attempted, name)
    /\ outcomes' = Append(outcomes, a.res)
    /\ fetched' = Append(fetched, a.fetched)
    /\ answers' = Append(answers, a.answers)
    /\ lookups' = Append(lookups, a.lookups)
    /\ printed' = IF a.res.tag = "Err" THEN printed
                  ELSE Append(printed, show_approach(label, a.res))
    /\ allStep' = IF a.res.tag = "Err" THEN 6 ELSE n + 1
    /\ UNCHANGED <<base_url, lmStep, env, lmResult>>
    /\ UNCHANGED <<valVars, adVars>>

\* `Self::show_approach(label, &metadata.approach(..).await)?;`
ShowApproach(n, name, label, a) ==
    /\ allStep = n
    /\ attempted' = Append(attempted, name)
    /\ outcomes' = Append(outcomes, a.res)
    /\ fetched' = Append(fetched, a.fetched)
    /\ answers' = Append(answers, a.answers)
    /\ lookups' = Append(lookups, a.lookups)
    /\ printed' = Append(printed, show_approach(label, a.res))
    /\ allStep' = n + 1
    /\ UNCHANGED <<base_url, lmStep, env, lmResult>>
    /\ UNCHANGED <<valVars, adVars>>

ShowDirectUrl ==
    \E r \in JsonResponses :
        ShowApproach(1, "full_url", "Direct URL", approach_full_url(base_url, r))

ShowWellKnown ==
    \E r \in JsonResponses :
        ShowApproach(2, "well_known", "Well-known", approach_well_known(base_url, r))

ShowWellKnownSecurityTxt ==
    \E rt \in TextResponses, rj \in JsonResponses :
        ShowApproach(3, "well_known_security_txt", "/.well-known/security.txt",
            approach_security_txt(base_url, <<"/", ".well-known/security.txt">>, rt, rj))

ShowSecurityTxt ==
    \E rt \in TextResponses, rj \in JsonResponses :
        ShowApproach(4, "security_txt", "/security.txt",
            approach_security_txt(base_url, <<"/", "security.txt">>, rt, rj))

ShowDns ==
    \E d \in DnsResponses, r \in JsonResponses :
        ShowApproach(5, "dns", "DNS", approach_dns(base_url, d, r))

\* Metadata::all after the fetcher was created: MetadataRetriever::new(source)
InitCli ==
    /\ base_url \in Sources
    /\ lmStep = 6
    /\ attempted = <<>>
    /\ outcomes = <<>>
    /\ fetched = <<>>
    /\ answers = <<>>
    /\ env = NoEnv
    /\ lookups = <<>>
    /\ lmResult = Pending
    /\ allStep = 1
    /\ printed = <<>>

NextCli ==
    \/ ShowDirectUrl
    \/ ShowWellKnown
    \/ ShowWellKnownSecurityTxt
    \/ ShowSecurityTxt
    \/ ShowDns

\* ------------------------------------------------------------------------
\* Specifications
\* ------------------------------------------------------------------------
\* the discovery pipeline alone (the validator is never constructed)
DiscoveryIdle ==
    /\ base_url = <<HostTok>>
    /\ lmStep = 6
    /\ attempted = <<>>
    /\ outcomes = <<>>
    /\ fetched = <<>>
    /\ answers = <<>>
    /\ env = NoEnv
    /\ lookups = <<>>
    /\ lmResult = Pending

ValidatorIdle ==
    /\ timeout = FALSE
    /\ bundle = "registers"
    /\ docs = {}
    /\ slot = 0
    /\ holder = 0
    /\ nhosts = 0
    /\ terminated = {}
    /\ ncalls = 0
    /\ order = <<>>
    /\ pc = [k \in CallIds |-> "none"]
    /\ calls = [k \in CallIds |-> NoCall]
    /\ wd = [k \in CallIds |-> NoWd]
    /\ cancelled = [k \in CallIds |-> FALSE]

\* the single-caller view is not exercised: an Optional adapter, no check yet
AdapterIdle ==
    /\ profile = "Optional"
    /\ validations = ProfileValidations("Optional")
    /\ runnerResult = [tests |-> <<>>]
    /\ passed = {}
    /\ out = NoReturn

\* the show-all mode is not running
CliIdle ==
    /\ allStep = 6
    /\ printed = <<>>

InitDiscoveryOnly == InitDiscovery /\ ValidatorIdle /\ AdapterIdle /\ CliIdle

\* the validator alone (no discovery is running)
InitValidatorOnly == InitValidator /\ DiscoveryIdle /\ AdapterIdle /\ CliIdle

\* one adapter and one caller (new() leaves the slot empty and timeout None)
InitAdapterOnly == InitAdapter /\ ValidatorIdle /\ DiscoveryIdle /\ CliIdle

\* the show-all mode alone
InitCliOnly == InitCli /\ ValidatorIdle /\ AdapterIdle

SpecDiscovery == InitDiscoveryOnly /\ [][NextDiscovery]_vars

SpecValidator == InitValidatorOnly /\ [][NextValidator]_vars

SpecAdapter == InitAdapterOnly /\ [][NextAdapter]_vars

SpecCli == InitCliOnly /\ [][NextCli]_vars

\* ------------------------------------------------------------------------
\* Properties of the discovery pipeline
\* ------------------------------------------------------------------------
Order == <<"full_url", "well_known", "well_known_security_txt", "security_txt", "dns">>

AllNone(n) == \A i \in 1..n : outcomes[i] = OkNone

\* C1: load_metadata runs the approaches in the fixed order full-URL,
\* well-known, .well-known/security.txt, security.txt, DNS; approach N is
\* attempted if and only if every approach before it returned Ok(None); the
\* first Ok(Some(m)) makes it return Ok(m), the first Err(e) makes it return
\* Err(e), and nothing is attempted after either.
C1_StrictOrder ==
    /\ Len(attempted) <= 5
    /\ attempted = SubSeq(Order, 1, Len(attempted))
    /\ Len(outcomes) = Len(attempted)
    /\ Len(outcomes) >= 1 => AllNone(Len(outcomes) - 1)
    /\ (lmStep \in 1..5) <=> (lmResult = Pending)
    /\ lmStep \in 1..5 => (Len(attempted) = lmStep - 1 /\ AllNone(Len(outcomes)))
    /\ (Len(outcomes) < 5 /\ AllNone(Len(outcomes))) => lmStep = Len(outcomes) + 1
    /\ lmStep = 6 =>
          /\ Len(outcomes) >= 1
          /\ LET last == outcomes[Len(outcomes)] IN
               /\ last.tag = "OkSome" => lmResult = [tag |-> "Ok", val |-> last.val]
               /\ last.tag = "Err" => lmResult = last
               /\ last.tag = "OkNone" => Len(outcomes) = 5

\* the legacy security.txt approach found the metadata after three Ok(None)
C1_Witness ==
    /\ lmStep = 6
    /\ Len(attempted) = 4
    /\ outcomes[4].tag = "OkSome"
    /\ lmResult.tag = "Ok"

\* C2: load_metadata returns Err(NotFound) if and only if all five approaches
\* were attempted and each returned Ok(None); no approach returns NotFound.
C2_NotFound ==
    /\ (lmResult = NotFound) <=> (Len(outcomes) = 5 /\ AllNone(5))
    /\ \A i \in 1..Len(outcomes) : outcomes[i] # NotFound

C2_Witness ==
    /\ lmResult = NotFound
    /\ Len(attempted) = 5

\* C9: a source that parses as an absolute URL and whose fetch answers 404
\* makes approach_full_url return Err(Fetch), never Ok(None), so
\* load_metadata fails with that error and approach 2 is not attempted.
C9_FullUrl404IsError ==
    (Len(attempted) >= 1 /\ UrlParse(base_url).ok /\ answers[1] = <<"404">>)
        => /\ outcomes[1] = Err("Fetch")
           /\ lmResult = Err("Fetch")
           /\ lmStep = 6
           /\ Len(attempted) = 1

C9_Witness ==
    /\ Len(attempted) = 1
    /\ UrlParse(base_url).ok
    /\ answers[1] = <<"404">>
    /\ lmStep = 6

\* C10: a source that does not parse as an absolute URL makes
\* approach_full_url return Ok(None) without any fetcher call.
C10_NonUrlSkipsWithoutFetch ==
    (Len(attempted) >= 1 /\ ~UrlParse(base_url).ok)
        => /\ outcomes[1] = OkNone
           /\ fetched[1] = <<>>
           /\ answers[1] = <<>>

C10_Witness ==
    /\ Len(attempted) = 1
    /\ ~UrlParse(base_url).ok
    /\ lmStep = 2

\* the approach invoked last, when it is one of the two security.txt approaches
LastIsSecurityTxt == Len(attempted) \in {3, 4} /\ env.text # <<>>

\* an extension entry the specification of the scan accepts: named csaf, with
\* a value that is an absolute URL of scheme https
Acceptable(e) ==
    /\ e.name = "csaf"
    /\ Len(e.value) >= 3
    /\ e.value[1] = "https:"
    /\ e.value[2] = "//"

AcceptableAt(ext) == {j \in DOMAIN ext : Acceptable(ext[j])}

Least(S) == CHOOSE j \in S : \A k \in S : j <= k

\* C11: when the security.txt names an acceptable CSAF URL and the fetch of
\* that URL answers 404, approach_security_txt returns Err(Fetch), not
\* Ok(None); load_metadata returns that error and invokes no later approach
\* (after the .well-known/security.txt step: neither security.txt nor DNS).
C11_SecurityTxt404IsFatal ==
    \A i \in {3, 4} :
        (Len(attempted) >= i /\ Len(fetched[i]) = 2 /\ answers[i][2] = "404")
            => /\ outcomes[i] = Err("Fetch")
               /\ lmResult = Err("Fetch")
               /\ lmStep = 6
               /\ Len(attempted) = i

\* .well-known/security.txt answered 200 with a CSAF entry, the metadata 404
C11_Witness ==
    /\ Len(attempted) = 3
    /\ answers[3] = <<"200", "404">>
    /\ fetched[3][2] = <<"https:", "//", "x", "/", "pm.json">>
    /\ lmStep = 6

\* C12: approach_security_txt returns Ok(None) exactly when the security.txt
\* fetch answers 404 or the file parses and has no acceptable CSAF entry; a
\* fetched file that does not parse gives Err(SecurityTxt), a fetch failure
\* other than 404 gives Err(Fetch).
C12_SecurityTxtNoneExactly ==
    LastIsSecurityTxt =>
        LET rt == env.text[1]
            got == outcomes[Len(attempted)] IN
        /\ (got = OkNone) <=>
              \/ rt.status = "404"
              \/ rt.status = "200" /\ rt.parses /\ AcceptableAt(rt.extension) = {}
        /\ (rt.status = "200" /\ ~rt.parses) => got = Err("SecurityTxt")
        /\ rt.status = "500" => got = Err("Fetch")

\* the legacy security.txt was fetched and did not parse
C12_Witness ==
    /\ Len(attempted) = 4
    /\ env.text # <<>>
    /\ env.text[1].status = "200"
    /\ ~env.text[1].parses
    /\ outcomes[4] = Err("SecurityTxt")

\* C13: get_metadata_url_from_security_text returns the value of the first
\* entry, in document order, that is named csaf and whose value is an absolute
\* https URL; entries with another scheme or a value that is no URL are
\* skipped even when they come first; without such an entry it returns None.
\* The URL it returns is the one approach_security_txt fetches next.
C13_FirstHttpsCsafEntry ==
    (LastIsSecurityTxt /\ env.text[1].status = "200" /\ env.text[1].parses) =>
        LET ext == env.text[1].extension
            i == Len(attempted) IN
        IF AcceptableAt(ext) = {}
        THEN /\ get_metadata_url_from_security_text(env.text[1]) = OkNone
             /\ Len(fetched[i]) = 1
        ELSE /\ get_metadata_url_from_security_text(env.text[1])
                   = OkSome(ext[Least(AcceptableAt(ext))].value)
             /\ Len(fetched[i]) = 2
             /\ fetched[i][2] = ext[Least(AcceptableAt(ext))].value

\* an http entry comes first and is skipped for the https entry after it
C13_Witness ==
    /\ LastIsSecurityTxt
    /\ env.text[1].extension =
          << [name |-> "csaf", value |-> <<"http:", "//", "x", "/", "pm.json">>],
             [name |-> "csaf", value |-> <<"https:", "//", "y", "/", "pm.json">>] >>
    /\ fetched[Len(attempted)][2] = <<"https:", "//", "y", "/", "pm.json">>

\* str::to_lowercase on the extension names of the model
Lower(n) == IF n = "CSAF" THEN "csaf" ELSE n

\* an entry acceptable when the name is compared without regard to case
AcceptableAnyCase(e) == Acceptable([e EXCEPT !.name = Lower(e.name)])

\* C14: the extension scan matches the name csaf case-insensitively: an entry
\* named CSAF (or csaf) with an https URL value is accepted as the CSAF
\* reference, so the approach goes on to fetch that URL.
C14_NameMatchedIgnoringCase ==
    (LastIsSecurityTxt /\ env.text[1].status = "200" /\ env.text[1].parses) =>
        ((\E j \in DOMAIN env.text[1].extension :
              AcceptableAnyCase(env.text[1].extension[j]))
            => Len(fetched[Len(attempted)]) = 2)

\* C15: approach_dns returns Ok(None) without any HTTP request when the lookup
\* of csaf.data.security.{source} finds no records or yields zero addresses;
\* any other resolver error is returned as Err(Dns); the fetch is issued only
\* after a lookup that yielded at least one address.
C15_DnsPreflight ==
    (Len(attempted) = 5 /\ env.dns # <<>>) =>
        /\ lookups[5] = << <<"csaf.data.security.">> \o base_url >>
        /\ env.dns[1] \in {"no_records", "empty"} =>
              /\ outcomes[5] = OkNone
              /\ fetched[5] = <<>>
              /\ lmResult = NotFound
        /\ env.dns[1] = "error" =>
              /\ outcomes[5] = Err("Dns")
              /\ fetched[5] = <<>>
        /\ fetched[5] # <<>> =>
              /\ env.dns[1] = "addresses"
              /\ fetched[5] = << <<"https:", "//", "csaf.data.security.">> \o base_url >>

\* test_dns_fail: the name does not resolve, nothing is fetched
C15_Witness ==
    /\ Len(attempted) = 5
    /\ base_url = <<"this-should-not-exist">>
    /\ env.dns = <<"no_records">>
    /\ outcomes[5] = OkNone
    /\ fetched[5] = <<>>

\* C16: approach_well_known fetches
\* https://{source}/.well-known/csaf/provider-metadata.json and returns
\* Ok(None) exactly when the fetch answers 404, Ok(Some) when the body decodes,
\* and Err(Fetch) for every other transport or decode failure.
C16_WellKnown ==
    (Len(attempted) = 2 /\ env.json # <<>>) =>
        LET r == env.json[1] IN
        /\ fetched[2] = << <<"https:", "//">> \o base_url
                              \o <<"/", ".well-known/csaf/provider-metadata.json">> >>
        /\ answers[2] = <<r.status>>
        /\ (outcomes[2] = OkNone) <=> (r.status = "404")
        /\ (outcomes[2].tag = "OkSome") <=> (r.status = "200" /\ r.body = "metadata")
        /\ (r.status # "404" /\ ~(r.status = "200" /\ r.body = "metadata"))
              => outcomes[2] = Err("Fetch")

\* the well-known URL answered 404 and the next approach is due
C16_Witness ==
    /\ Len(attempted) = 2
    /\ answers[2] = <<"404">>
    /\ outcomes[2] = OkNone
    /\ lmStep = 3

\* C19: within one load_metadata call the approaches run one after another,
\* each at most once, and the call ends with exactly one outcome (metadata, an
\* error or NotFound) after at most five approach invocations.
C19_EachApproachOnce ==
    /\ Len(attempted) <= 5
    /\ \A i, j \in 1..Len(attempted) : i # j => attempted[i] # attempted[j]
    /\ Len(fetched) = Len(attempted)
    /\ Len(lookups) = Len(attempted)
    /\ lmStep \in 1..5 => (lmResult = Pending /\ Len(attempted) = lmStep - 1)
    /\ lmStep = 6 =>
          /\ lmResult.tag \in {"Ok", "Err"}
          /\ Len(attempted) \in 1..5

\* a call that needed all five approaches and ended with the metadata
C19_Witness ==
    /\ Len(attempted) = 5
    /\ lmStep = 6
    /\ lmResult.tag = "Ok"

\* the source is written as scheme://rest
IsAbsoluteUrl(src) == Len(src) >= 3 /\ src[1] \in {"https:", "http:"} /\ src[2] = "//"

\* C25: for a source that parses as an absolute URL, load_metadata ends at
\* approach 1, with Ok(metadata) or Err(Fetch): the well-known, security.txt
\* and DNS approaches are never attempted and NotFound is never returned.
C25_UrlSourceEndsAtFirstApproach ==
    IsAbsoluteUrl(base_url) =>
        /\ Len(attempted) <= 1
        /\ lmResult # NotFound
        /\ Len(attempted) = 1 =>
              /\ attempted = <<"full_url">>
              /\ lmStep = 6
              /\ \/ lmResult = [tag |-> "Ok", val |-> base_url]
                 \/ lmResult = Err("Fetch")

\* an http source was fetched and decoded by approach 1
C25_Witness ==
    /\ base_url = <<"http:", "//", HostTok, "/", "pm.json">>
    /\ attempted = <<"full_url">>
    /\ lmStep = 6
    /\ lmResult.tag = "Ok"

\* C26: in approach_dns, when the lookup yields at least one address and the
\* fetch of https://csaf.data.security.{source} answers 404, the approach
\* returns Ok(None), not an error, and load_metadata ends with NotFound.
C26_Dns404IsNotPresent ==
    (Len(attempted) = 5 /\ env.dns = <<"addresses">> /\ answers[5] = <<"404">>) =>
        /\ fetched[5] = << <<"https:", "//", "csaf.data.security.">> \o base_url >>
        /\ outcomes[5] = OkNone
        /\ lmResult = NotFound
        /\ lmStep = 6

\* the name resolved, the fetch answered 404
C26_Witness ==
    /\ Len(attempted) = 5
    /\ env.dns = <<"addresses">>
    /\ answers[5] = <<"404">>
    /\ lmResult = NotFound

\* ------------------------------------------------------------------------
\* Properties of the CLI's show-all mode
\* ------------------------------------------------------------------------
\* C27: the security.txt approaches fetch exactly
\* https://{source}/.well-known/security.txt (approach 3) and
\* https://{source}/security.txt (approach 4), with a single slash after the
\* host, also when they are run one by one by the show-all mode.
C27_SingleSlashAfterHost ==
    /\ Len(fetched) >= 3 =>
          fetched[3][1] = <<"https:", "//">> \o base_url \o <<"/", ".well-known/security.txt">>
    /\ Len(fetched) >= 4 =>
          fetched[4][1] = <<"https:", "//">> \o base_url \o <<"/", "security.txt">>

Labels == <<"Direct URL", "Well-known", "/.well-known/security.txt", "/security.txt", "DNS">>

Done(k) == pc[k] = "done"

\* the call has read the cancelled flag
HasRead(k) == pc[k] \in {"drop", "finish"} \/ (pc[k] = "done" /\ calls[k].run # "none")

\* C3: a check() that ends by deadline returns exactly ["check timed out"] and
\* leaves the slot empty; the next check() on the adapter builds a fresh host,
\* is not touched by the earlier termination, and returns [] for a valid
\* document (unless its own deadline ends it).
C3_TimeoutThenFreshHost ==
    \A i \in 1..Len(order) :
        LET k == order[i] IN
        /\ (Done(k) /\ calls[k].readc) => calls[k].ret = TimedOut
        /\ (Done(k) /\ calls[k].ret = TimedOut) =>
              /\ calls[k].readc
              /\ i = Len(order) => slot = 0
              /\ i < Len(order) =>
                    LET n == order[i + 1] IN
                    /\ pc[n] # "new" =>
                          /\ calls[n].built
                          /\ calls[n].iso > calls[k].iso
                    /\ (HasRead(n) /\ calls[n].run = "terminated") => cancelled[n]
                    /\ (Done(n) /\ calls[n].doc = "valid") =>
                          \/ calls[n].ret = [tag |-> "Ok", val |-> <<>>]
                          \/ calls[n].readc /\ calls[n].ret = TimedOut

\* a timed-out call followed by a call on a valid document that returned []
C3_Witness ==
    /\ Len(order) = 2
    /\ Done(order[1]) /\ calls[order[1]].ret = TimedOut
    /\ Done(order[2]) /\ calls[order[2]].doc = "valid"
    /\ calls[order[2]].built
    /\ calls[order[2]].ret = [tag |-> "Ok", val |-> <<>>]

\* the positions of check() from the inspection of the slot to its return
InCritical == {"new", "validate", "running", "check_cancelled", "drop", "finish"}

\* C4: at most one caller is inside InnerCheck::new or InnerCheck::validate:
\* the mutex is taken before the slot is inspected and held until check() has
\* the validate result and has evicted the host on timeout.
C4_MutualExclusion ==
    /\ \A k \in CallIds : pc[k] \in InCritical => holder = k
    /\ Cardinality({k \in CallIds : pc[k] \in InCritical}) <= 1
    /\ holder # 0 => pc[holder] \in InCritical

\* one caller is validating while another waits for the mutex
C4_Witness ==
    \E a, b \in CallIds :
        /\ pc[a] = "running"
        /\ pc[b] = "lock"
        /\ holder = a

\* C5: if the Deadline guard is dropped before its duration has elapsed, the
\* watchdog never sets cancelled and never calls terminate_execution(), in
\* every interleaving of the watchdog with the validating thread.
C5_DisarmedGuardNeverFires ==
    \A k \in CallIds :
        calls[k].droppedEarly =>
            /\ ~cancelled[k]
            /\ wd[k].pc \notin {"stored", "fired"}

\* C6: with a timeout configured and a runner that never completes on its
\* own, validate returns Ok(None) and check() returns ["check timed out"]:
\* stated for the calls whose event-loop future has resolved and that have
\* returned.
C6_HangingCallTimesOut ==
    \A k \in CallIds :
        (timeout /\ Done(k) /\ calls[k].doc = "hang" /\ calls[k].run # "none")
            => calls[k].ret = TimedOut

\* C7: the host is built by the first check() and kept across the calls that
\* do not time out, so it is built once, and a repeated check() of the same
\* document returns what the first returned.
C7_HostKeptAndResultRepeats ==
    /\ (\A k \in CallIds : calls[k].ret # TimedOut) =>
          /\ nhosts <= 1
          /\ \A k \in CallIds : calls[k].built => (Len(order) >= 1 /\ k = order[1])
    /\ \A a, b \in CallIds :
          (/\ Done(a) /\ Done(b)
           /\ calls[a].doc = calls[b].doc
           /\ calls[a].ret # TimedOut /\ calls[b].ret # TimedOut)
              => calls[a].ret = calls[b].ret

\* C8: the cancelled flag is read after the event-loop future resolves and
\* before the guard is dropped; when the watchdog of the call invoked
\* terminate_execution() before that read, the read sees cancelled == true,
\* and the call is reported as timed out, not as an error or a result.
C8_FiredWatchdogIsObserved ==
    \A k \in CallIds :
        /\ pc[k] \in {"drop", "finish"} => calls[k].run # "none"
        /\ pc[k] \in {"drop"} => wd[k].pc \notin {"notified", "exited"}
        /\ (HasRead(k) /\ calls[k].firedAtRead) => calls[k].readc
        /\ (Done(k) /\ calls[k].firedAtRead) => calls[k].ret = TimedOut

\* the watchdog terminated a hanging runner and the call returned timed out
C8_Witness ==
    \E k \in CallIds :
        /\ Done(k)
        /\ calls[k].doc = "hang"
        /\ calls[k].firedAtRead
        /\ calls[k].run = "terminated"
        /\ calls[k].ret = TimedOut

\* ------------------------------------------------------------------------
\* Properties of one adapter used by a single caller
\* ------------------------------------------------------------------------
\* the number of strings the first n entries contribute
RECURSIVE Contributed(_, _)
Contributed(tests, n) ==
    IF n = 0 THEN 0
    ELSE Contributed(tests, n - 1)
            + (IF tests[n].is_valid THEN 0 ELSE Len(tests[n].errors))

\* C17: for every TestResult, check() returns exactly the strings
\* "{entry.name}: {error.message}", one per error of each entry with
\* is_valid == false, in entry order and within an entry in error order;
\* entries with is_valid == true contribute nothing even if they carry
\* errors, and warnings and infos never contribute.
C17_OnlyErrorsOfInvalidEntries ==
    out # NoReturn =>
        LET t == runnerResult.tests IN
        /\ out.tag = "Ok"
        /\ Len(out.val) = Contributed(t, Len(t))
        /\ \A i \in 1..Len(t) :
              ~t[i].is_valid =>
                  \A j \in 1..Len(t[i].errors) :
                      out.val[Contributed(t, i - 1) + j]
                          = <<t[i].name, ": ", t[i].errors[j].message>>

\* a valid entry carrying an error, then an invalid entry with two errors,
\* a warning and an info
C17_Witness ==
    /\ runnerResult.tests =
          << [name |-> "schema", is_valid |-> TRUE, errors |-> <<ErrEntry("m1")>>,
              warnings |-> <<>>, infos |-> <<>>],
             [name |-> "mandatory", is_valid |-> FALSE,
              errors |-> <<ErrEntry("m2"), ErrEntry("m1")>>,
              warnings |-> <<"w">>, infos |-> <<"i">>] >>
    /\ out = [tag |-> "Ok",
              val |-> << <<"mandatory", ": ", "m2">>, <<"mandatory", ": ", "m1">> >>]

\* C18: the profile is expanded when the adapter is created: Schema gives
\* [schema], Mandatory gives [schema, mandatory], Optional gives
\* [schema, mandatory, optional]; neither check() nor a timeout builder
\* changes the list, and every check() passes that list to the runner.
C18_ProfileExpansionFixed ==
    /\ profile = "Schema" => validations = <<"schema">>
    /\ profile = "Mandatory" => validations = <<"schema", "mandatory">>
    /\ profile = "Optional" => validations = <<"schema", "mandatory", "optional">>
    /\ \A p \in passed : p = validations
    /\ out # NoReturn => passed = {validations}

\* a Mandatory adapter with a timeout set by a builder has run a check
C18_Witness ==
    /\ profile = "Mandatory"
    /\ timeout
    /\ out # NoReturn
    /\ passed = { <<"schema", "mandatory">> }

\* C20: terminate_execution() is never invoked on an isolate whose host stays
\* in the slot for later calls: when the watchdog of a call fires, that call's
\* check() evicts the host, so a host left in the slot with the mutex free has
\* no termination pending.
C20_NoTerminationOnKeptHost ==
    /\ \A k \in CallIds :
          (Done(k) /\ calls[k].run # "none" /\ wd[k].pc = "fired")
              => calls[k].ret = TimedOut
    /\ (holder = 0 /\ slot # 0) => slot \notin terminated

\* C21: validate returns the timed-out sentinel Ok(None) exactly when the
\* cancelled flag reads true at the check, whatever the runner call produced;
\* when it reads false, a runner error is returned as Err and a resolved value
\* is deserialized into Ok(Some(result)) (an Err if it does not deserialize).
\* Stated on what check() returns for the validate result.
C21_SentinelIffFlagRead ==
    \A k \in CallIds :
        (Done(k) /\ calls[k].run # "none") =>
            /\ (calls[k].ret = TimedOut) <=> calls[k].readc
            /\ (~calls[k].readc /\ calls[k].run \in {"rejected", "terminated"})
                  => calls[k].ret.tag = "Err"
            /\ (~calls[k].readc /\ calls[k].run = "resolved") =>
                  IF calls[k].doc = "bad_result"
                  THEN calls[k].ret = CheckErr("deserialize failed")
                  ELSE /\ calls[k].ret.tag = "Ok"
                       /\ calls[k].ret # TimedOut

\* the flag read true although the runner's promise had been rejected
C21_Witness ==
    \E k \in CallIds :
        /\ Done(k)
        /\ calls[k].run = "rejected"
        /\ calls[k].readc
        /\ calls[k].ret = TimedOut

\* C22: if host initialization fails (the bundle registers no runner, or the
\* module fails to load or evaluate), check() returns that error, no host is
\* stored in the slot, the mutex is released, and the next check() attempts
\* initialization again.
C22_InitFailureLeavesSlotEmpty ==
    bundle # "registers" =>
        /\ slot = 0
        /\ nhosts = 0
        /\ \A k \in CallIds :
              /\ pc[k] \in {"none", "lock", "new", "done"}
              /\ Done(k) =>
                    /\ holder # k
                    /\ calls[k].ret =
                          CheckErr(IF bundle = "no_runner"
                                   THEN "runner function was not initialized"
                                   ELSE "module load failed")

\* two calls in a row failed with the missing-runner error
C22_Witness ==
    /\ bundle = "no_runner"
    /\ Len(order) = 2
    /\ \A k \in {order[1], order[2]} :
          /\ Done(k)
          /\ calls[k].ret = CheckErr("runner function was not initialized")
    /\ holder = 0

\* the errors of validate other than the timeout
ValidateErrors ==
    { CheckErr("serialize failed"), CheckErr("runner rejected"),
      CheckErr("deserialize failed") }

\* C23: when validate fails with a non-timeout error (argument serialization,
\* runner rejection, TestResult deserialization), check() returns that single
\* error, not "check timed out", and leaves the host in the slot, so the next
\* check() reuses it and builds none.
C23_ErrorKeepsHost ==
    \A i \in 1..Len(order) :
        LET k == order[i] IN
        (Done(k) /\ calls[k].ret \in ValidateErrors) =>
            /\ calls[k].iso # 0
            /\ calls[k].doc \in {"unserializable", "reject", "bad_result"}
            /\ i = Len(order) => slot = calls[k].iso
            /\ i < Len(order) =>
                  /\ pc[order[i + 1]] # "new"
                  /\ ~calls[order[i + 1]].built
                  /\ calls[order[i + 1]].iso = calls[k].iso

\* a deserialization failure followed by a completed call on the same host
C23_Witness ==
    /\ Len(order) = 2
    /\ Done(order[1])
    /\ calls[order[1]].ret = CheckErr("deserialize failed")
    /\ Done(order[2])
    /\ calls[order[2]].iso = calls[order[1]].iso
    /\ nhosts = 1

\* C24: with timeout None, validate arms no guard and spawns no watchdog,
\* terminate_execution is never called, and check() never returns
\* ["check timed out"] nor evicts the host.
C24_NoTimeoutNoWatchdog ==
    ~timeout =>
        /\ \A k \in CallIds :
              /\ wd[k] = NoWd
              /\ ~cancelled[k]
              /\ ~calls[k].readc
              /\ calls[k].ret # TimedOut
        /\ terminated = {}
        /\ nhosts <= 1
        /\ nhosts = 1 => slot = 1

\* two calls without a timeout were served by the one host
C24_Witness ==
    /\ ~timeout
    /\ Len(order) = 2
    /\ \A k \in {order[1], order[2]} : Done(k) /\ calls[k].run = "resolved"
    /\ nhosts = 1
    /\ slot = 1

====
